---- MODULE Spec2Model ----
(***************************************************************************)
(* A model of python-decouple (src/decouple.py): the Config resolver, the  *)
(* repository variants, the AutoConfig discovery and the Csv caster.       *)
(*                                                                         *)
(* Python strings are sequences of one-character strings, so that strip,   *)
(* split, lower and the shlex tokenizer are computed character by          *)
(* character as the library computes them.                                 *)
(***************************************************************************)
EXTENDS Integers, Sequences, FiniteSets, TLC

VARIABLES
    environ,        \* os.environ: a mapping from keys to strings
    fs,             \* the filesystem: for each directory, the regular files in it
    iter_order,     \* the order in which this interpreter iterates AutoConfig.SUPPORTED
    search_path,    \* AutoConfig.search_path
    search_parents, \* AutoConfig.search_parents
    config,         \* AutoConfig.config, or the Config a caller built directly
    filename,       \* what the last _find_file returned
    walks,          \* how many times _find_file walked the filesystem
    calls,          \* how many calls were made
    ret,            \* the arguments and the outcome of the last call
    value,          \* Csv: the string handed to Csv.__call__
    tokens,         \* Csv: the outcome of Csv.__call__ on value
    source,         \* RepositoryEnv: the lines of the file being read
    data            \* RepositoryEnv: the mapping built by __init__

cfgVars == <<environ, fs, iter_order, search_path, search_parents, config,
             filename, walks, calls, ret>>
csvVars == <<value, tokens>>
envVars == <<source, data>>
vars == <<environ, fs, iter_order, search_path, search_parents, config,
          filename, walks, calls, ret, value, tokens, source, data>>

----------------------------------------------------------------------------
(* Bounds of the model.                                                    *)

\* longest generated input of Csv.__call__
MaxLen == 4
\* longest generated line of an env file
MaxLineLen == 3
\* deepest directory of the tree: 0 is the filesystem root, n + 1 is a child of n
MaxDepth == 2
\* most calls made to one AutoConfig
MaxCalls == 2
\* most candidate files in the whole tree
MaxFiles == 3

----------------------------------------------------------------------------
(* Python str helpers.                                                     *)

\* string.whitespace, as far as a TLA+ string can write it (no \x0b)
Whitespace == {" ", "\t", "\n", "\r", "\f"}

\* all strings over alphabet A of length at most n
StringsUpTo(A, n) == UNION {[1..k -> A] : k \in 0..n}

RECURSIVE LStrip(_, _)
LStrip(s, chars) ==
    IF s # <<>> /\ Head(s) \in chars THEN LStrip(Tail(s), chars) ELSE s

RECURSIVE RStrip(_, _)
RStrip(s, chars) ==
    IF s # <<>> /\ s[Len(s)] \in chars
    THEN RStrip(SubSeq(s, 1, Len(s) - 1), chars)
    ELSE s

\* str.strip(chars): drop leading and trailing characters that are in chars
Strip(s, chars) == RStrip(LStrip(s, chars), chars)

\* index of the first occurrence of c in s at or after i, 0 when there is none
RECURSIVE Find(_, _, _)
Find(s, c, i) ==
    IF i > Len(s) THEN 0
    ELSE IF s[i] = c THEN i
    ELSE Find(s, c, i + 1)

\* str.split(d): the fields between the occurrences of d, empty ones included
RECURSIVE SplitFields(_, _)
SplitFields(s, d) ==
    LET n == Find(s, d, 1) IN
    IF n = 0 THEN <<s>>
    ELSE <<SubSeq(s, 1, n - 1)>> \o SplitFields(SubSeq(s, n + 1, Len(s)), d)

\* the empty mapping (a Python dict with no keys)
EmptyMap == [k \in {} |-> <<>>]

\* dict[k] = v
Put(m, k, v) == [x \in DOMAIN m \cup {k} |-> IF x = k THEN v ELSE m[x]]

----------------------------------------------------------------------------
(* shlex.shlex(value, posix=True) as Csv.__call__ configures it:           *)
(* whitespace is the delimiter, whitespace_split is on, and the quotes,    *)
(* escape and comment characters keep their defaults.                      *)

Delimiter == ","
Quotes == {"'", "\""}
Escape == "\\"
EscapedQuotes == {"\""}
Commenters == {"#"}

\* the position after the rest of the current line (instream.readline())
AfterLine(s, i) ==
    LET n == Find(s, "\n", i) IN IF n = 0 THEN Len(s) + 1 ELSE n + 1

\* get_token's result joins the list unless it is the eof marker: in posix
\* mode an unquoted empty token is None, which ends the iteration
RECURSIVE ShlexRun(_, _, _, _, _, _, _)
ShlexRun(s, i, state, token, quoted, escapedstate, out) ==
    LET c == s[i]
        \* read_token returns `token`; the next call starts in state st at j
        Break(st, j) == ShlexRun(s, j, st, <<>>, FALSE, " ", Append(out, token))
        Go(st, tk, q, es) == ShlexRun(s, i + 1, st, tk, q, es, out)
    IN
    IF i > Len(s) THEN
        \* end of input
        IF state \in Quotes \/ state = Escape
        THEN [err |-> TRUE, toks |-> out]
        ELSE IF token = <<>> /\ ~quoted
             THEN [err |-> FALSE, toks |-> out]
             ELSE [err |-> FALSE, toks |-> Append(out, token)]
    ELSE IF state = " " THEN
        IF c = Delimiter THEN
            IF token # <<>> \/ quoted THEN Break(" ", i + 1)
            ELSE Go(" ", token, quoted, escapedstate)
        ELSE IF c \in Commenters THEN
            ShlexRun(s, AfterLine(s, i), " ", token, quoted, escapedstate, out)
        ELSE IF c = Escape THEN Go(c, token, quoted, "a")
        ELSE IF c \in Quotes THEN Go(c, token, quoted, escapedstate)
        ELSE Go("a", <<c>>, quoted, escapedstate)
    ELSE IF state \in Quotes THEN
        IF c = state THEN Go("a", token, TRUE, escapedstate)
        ELSE IF c = Escape /\ state \in EscapedQuotes
             THEN Go(c, token, TRUE, state)
        ELSE Go(state, Append(token, c), TRUE, escapedstate)
    ELSE IF state = Escape THEN
        IF escapedstate \in Quotes /\ c # state /\ c # escapedstate
        THEN Go(escapedstate, token \o <<state, c>>, quoted, escapedstate)
        ELSE Go(escapedstate, Append(token, c), quoted, escapedstate)
    ELSE \* state = "a"
        IF c = Delimiter THEN
            IF token # <<>> \/ quoted THEN Break(" ", i + 1)
            ELSE Go(" ", token, quoted, escapedstate)
        ELSE IF c \in Commenters THEN
            IF token # <<>> \/ quoted
            THEN Break(" ", AfterLine(s, i))
            ELSE ShlexRun(s, AfterLine(s, i), " ", token, quoted,
                          escapedstate, out)
        ELSE IF c \in Quotes THEN Go(c, token, quoted, escapedstate)
        ELSE IF c = Escape THEN Go(c, token, quoted, "a")
        ELSE Go("a", Append(token, c), quoted, escapedstate)

\* iterating the splitter: every token up to eof, or ValueError
Shlex(s) == ShlexRun(s, 1, " ", <<>>, FALSE, " ", <<>>)

----------------------------------------------------------------------------
(* Csv with default settings: cast=text_type, delimiter=',',               *)
(* strip=string.whitespace, post_process=list.                             *)

\* transform = lambda s: self.cast(s.strip(self.strip))
TransformNoStrip(s) == s
Transform(s) == Strip(s, Whitespace)

NoTokens == [done |-> FALSE, raised |-> FALSE, list |-> <<>>]

\* (a caster that splits with str.split instead of shlex)
Csv__call__Split(v) ==
    LET f == SplitFields(v, Delimiter) IN
    [done |-> TRUE, raised |-> FALSE,
     list |-> [k \in 1..Len(f) |-> Transform(f[k])]]

Csv__call__(v) ==
    LET r == Shlex(v) IN
    IF r.err
    THEN [done |-> TRUE, raised |-> TRUE, list |-> <<>>]
    ELSE [done |-> TRUE, raised |-> FALSE,
          list |-> [k \in 1..Len(r.toks) |-> Transform(r.toks[k])]]

----------------------------------------------------------------------------
(* RepositoryEnv.__init__: the line-by-line parse of an env file.          *)

NoData == [built |-> FALSE, map |-> EmptyMap]

\* (a parser that ends the value at a '#', as an inline comment)
ParseLineInlineComment(m, rawline) ==
    LET line == Strip(rawline, Whitespace)
        eq == Find(line, "=", 1)
        hash == Find(line, "#", 1)
        last == IF hash = 0 THEN Len(line) ELSE hash - 1
    IN
    IF line = <<>> \/ Head(line) = "#" \/ eq = 0
    THEN m
    ELSE LET k == Strip(SubSeq(line, 1, eq - 1), Whitespace)
             v == Strip(Strip(SubSeq(line, eq + 1, last), Whitespace), Quotes)
         IN Put(m, k, v)

\* one iteration of the loop over the file's lines
ParseLine(m, rawline) ==
    LET line == Strip(rawline, Whitespace)
        eq == Find(line, "=", 1)
    IN
    IF line = <<>> \/ Head(line) = "#" \/ eq = 0
    THEN m
    ELSE LET k == Strip(SubSeq(line, 1, eq - 1), Whitespace)
             v == Strip(Strip(SubSeq(line, eq + 1, Len(line)), Whitespace),
                        Quotes)
         IN Put(m, k, v)

RECURSIVE ParseLines(_, _)
ParseLines(m, lines) ==
    IF lines = <<>> THEN m
    ELSE ParseLines(ParseLine(m, Head(lines)), Tail(lines))

RepositoryEnv__init__(lines) == [built |-> TRUE, map |-> ParseLines(EmptyMap, lines)]

----------------------------------------------------------------------------
(* Python values: a type tag and, in s, what str() gives for the value.    *)

Str(s) == [t |-> "str", s |-> s]
None == [t |-> "NoneType", s |-> <<"N", "o", "n", "e">>]
PyTrue == [t |-> "bool", s |-> <<"T", "r", "u", "e">>]
PyFalse == [t |-> "bool", s |-> <<"F", "a", "l", "s", "e">>]
\* the module's reference instance of class Undefined
undefined == [t |-> "Undefined", s |-> <<>>]

PyBool(b) == IF b THEN PyTrue ELSE PyFalse

\* str(v)
PyStr(v) == v.s

UpperCase == <<"A", "B", "C", "D", "E", "F", "G", "H", "I", "J", "K", "L", "M",
               "N", "O", "P", "Q", "R", "S", "T", "U", "V", "W", "X", "Y", "Z">>
LowerCase == <<"a", "b", "c", "d", "e", "f", "g", "h", "i", "j", "k", "l", "m",
               "n", "o", "p", "q", "r", "s", "t", "u", "v", "w", "x", "y", "z">>

LowerChar(c) ==
    IF \E i \in 1..Len(UpperCase) : UpperCase[i] = c
    THEN LowerCase[CHOOSE i \in 1..Len(UpperCase) : UpperCase[i] = c]
    ELSE c

\* str.lower()
Lower(s) == [i \in 1..Len(s) |-> LowerChar(s[i])]

\* the outcome of a call: a returned value or a raised exception, and whether
\* the repository's __getitem__ ran ("no", "ok", or "missing": it raised for
\* want of the key)
Return(v, g) == [kind |-> "return", value |-> v, exc |-> "", getitem |-> g]
Raise(e, g) == [kind |-> "raise", value |-> None, exc |-> e, getitem |-> g]

----------------------------------------------------------------------------
(* The repository variants.  A repository is its class and the mapping it  *)
(* parsed from its file.                                                   *)

Repository(cls, d) == [cls |-> cls, data |-> d]

\* key in os.environ
InEnvironTruthy(env, key) == key \in DOMAIN env /\ env[key] # <<>>
InEnviron(env, key) == key \in DOMAIN env

\* ConfigParser.optionxform: option names are lower-cased, when the file is
\* read and when an option is looked up
optionxform(key) == Lower(key)

\* __contains__ of each variant
Contains(repo, env, key) ==
    CASE repo.cls = "RepositoryEmpty" -> FALSE
      [] repo.cls = "RepositoryIni" ->
            InEnviron(env, key) \/ optionxform(key) \in DOMAIN repo.data
      [] repo.cls = "RepositoryEnv" ->
            InEnviron(env, key) \/ key \in DOMAIN repo.data
      [] repo.cls = "RepositoryJSON" -> key \in DOMAIN repo.data

\* __getitem__ of each variant
GetItem(repo, key) ==
    CASE repo.cls = "RepositoryEmpty" -> Return(None, "ok")
      [] repo.cls = "RepositoryIni" ->
            IF optionxform(key) \in DOMAIN repo.data
            THEN Return(repo.data[optionxform(key)], "ok")
            ELSE Raise("NoOptionError", "missing")
      [] OTHER ->
            IF key \in DOMAIN repo.data
            THEN Return(repo.data[key], "ok")
            ELSE Raise("KeyError", "missing")

----------------------------------------------------------------------------
(* Config: the resolver.                                                   *)

S_1 == <<"1">>
S_yes == <<"y", "e", "s">>
S_true == <<"t", "r", "u", "e">>
S_on == <<"o", "n">>
S_0 == <<"0">>
S_no == <<"n", "o">>
S_false == <<"f", "a", "l", "s", "e">>
S_off == <<"o", "f", "f">>

_BOOLEANS ==
    (S_1 :> TRUE) @@ (S_yes :> TRUE) @@ (S_true :> TRUE) @@ (S_on :> TRUE) @@
    (S_0 :> FALSE) @@ (S_no :> FALSE) @@ (S_false :> FALSE) @@
    (S_off :> FALSE) @@ (<<>> :> FALSE)

_cast_booleanCaseSensitive(v) ==
    IF PyStr(v) \notin DOMAIN _BOOLEANS
    THEN Raise("ValueError", "no")
    ELSE Return(PyBool(_BOOLEANS[PyStr(v)]), "no")

_cast_boolean(v) ==
    LET s == PyStr(v) IN
    IF Lower(s) \notin DOMAIN _BOOLEANS
    THEN Raise("ValueError", "no")
    ELSE Return(PyBool(_BOOLEANS[Lower(s)]), "no")

_cast_do_nothing(v) == Return(v, "no")

\* the casts a caller passes: the undefined sentinel, the builtin bool, and
\* the builtin str as an example of any other callable
Casts == {"Undefined", "bool", "str"}

\* cast(v) for a callable other than bool
CallCast(cast, v) == Return(Str(PyStr(v)), "no")

\* isinstance(default, Undefined)
IsUndefinedOrNone(d) == d.t \in {"Undefined", "NoneType"}
IsUndefined(d) == d.t = "Undefined"

\* Config.get, lines 72-80: the value, or UndefinedValueError
ResolveRepositoryFirst(repo, env, option, default) ==
    IF Contains(repo, env, option) THEN GetItem(repo, option)
    ELSE IF InEnviron(env, option) THEN Return(Str(env[option]), "no")
    ELSE IF IsUndefined(default) THEN Raise("UndefinedValueError", "no")
    ELSE Return(default, "no")

Resolve(repo, env, option, default) ==
    IF InEnviron(env, option) THEN Return(Str(env[option]), "no")
    ELSE IF Contains(repo, env, option) THEN GetItem(repo, option)
    ELSE IF IsUndefined(default) THEN Raise("UndefinedValueError", "no")
    ELSE Return(default, "no")

\* Config.get, lines 82-87: the cast
ApplyCast(cast, v) ==
    IF cast = "Undefined" THEN _cast_do_nothing(v)
    ELSE IF cast = "bool" THEN _cast_boolean(v)
    ELSE CallCast(cast, v)

Config_get(repo, env, option, default, cast) ==
    LET r == Resolve(repo, env, option, default) IN
    IF r.kind = "raise" THEN r
    ELSE [ApplyCast(cast, r.value) EXCEPT !.getitem = r.getitem]

\* the record of a call: its arguments and its outcome
\* (path is the directory _load started from, -1 when the call did not load)
NoRet ==
    [called |-> FALSE, option |-> <<>>, default |-> undefined,
     cast |-> "Undefined", path |-> -1, out |-> Return(None, "no")]

Called(option, default, cast, path, out) ==
    [called |-> TRUE, option |-> option, default |-> default, cast |-> cast,
     path |-> path, out |-> out]

----------------------------------------------------------------------------
(* AutoConfig: the discovery.                                              *)

\* the keys of SUPPORTED in the order the dict literal declares them
SupportedNames == <<"secrets.json", "settings.ini", ".env">>

SUPPORTED ==
    ("secrets.json" :> "RepositoryJSON") @@ ("settings.ini" :> "RepositoryIni")
        @@ (".env" :> "RepositoryEnv")

\* `for configfile in self.SUPPORTED` iterates a plain dict.  The language
\* fixes that order (insertion order) only from Python 3.7 on; the module
\* also runs on Python 2 and on earlier Python 3 (lines 9-16), where the
\* order follows the hashes of the keys, which are randomized per process
\* from 3.3 on.  The order is therefore a choice made once per process.
IterOrders ==
    {o \in [1..3 -> DOMAIN SUPPORTED] : \A i, j \in 1..3 : i # j => o[i] # o[j]}

\* Directories are absolute, normalised paths, as os.path.abspath hands them
\* to _find_file: a chain in which 0 is the filesystem root and n + 1 is a
\* child of n.  os.path.isfile answers False instead of raising, so the
\* `except Exception` of _load has no case of its own here.
Root == 0
Dirs == 0..MaxDepth
\* search_path=None
NoPath == -1

\* os.path.dirname of an absolute path: the parent, and the root for the root
Dirname(path) == IF path = Root THEN Root ELSE path - 1

\* the filename '' of "nothing found"
NotFound == [dir |-> NoPath, name |-> ""]

\* os.path.basename
Basename(f) == f.name

\* the first name, in iteration order, that is a regular file in the directory
FirstHit(order, present) ==
    LET hits == {i \in 1..Len(order) : order[i] \in present} IN
    IF hits = {} THEN ""
    ELSE order[CHOOSE i \in hits : \A j \in hits : i <= j]

RECURSIVE _find_fileThroughRoot(_, _, _, _)
_find_fileThroughRoot(fsys, order, parents, path) ==
    IF FirstHit(order, fsys[path]) # ""
    THEN [dir |-> path, name |-> FirstHit(order, fsys[path])]
    ELSE IF parents /\ path # Root
    THEN _find_fileThroughRoot(fsys, order, parents, Dirname(path))
    ELSE NotFound

RECURSIVE _find_file(_, _, _, _)
_find_file(fsys, order, parents, path) ==
    IF FirstHit(order, fsys[path]) # ""
    THEN [dir |-> path, name |-> FirstHit(order, fsys[path])]
    ELSE IF parents /\ Dirname(path) # Root
    THEN _find_file(fsys, order, parents, Dirname(path))
    ELSE NotFound

K_upper == <<"K">>
K_lower == <<"k">>
Keys == {K_upper, K_lower}

\* what each file holds once parsed; the values name the file they come from
FileData(name) ==
    CASE name = "secrets.json" -> (K_upper :> Str(<<"j">>)) @@ (K_lower :> PyTrue)
      [] name = "settings.ini" -> (K_lower :> Str(<<"i">>))
      [] name = ".env" -> (K_upper :> Str(<<"e">>))
      [] OTHER -> EmptyMap

\* self.config before the first load, and a Config over a repository
NoConfig == [set |-> FALSE, source |-> NotFound, repository |-> Repository("None", EmptyMap)]
Config(f, repo) == [set |-> TRUE, source |-> f, repository |-> repo]

\* the class SUPPORTED.get(os.path.basename(filename), RepositoryEmpty)
RepositoryClass(f) ==
    IF Basename(f) \in DOMAIN SUPPORTED THEN SUPPORTED[Basename(f)]
    ELSE "RepositoryEmpty"

\* AutoConfig._load: the walk, then the repository's constructor, which
\* raises on a malformed settings.ini or secrets.json (`wellformed` is what
\* the file read finds) and then leaves self.config as it was
_load(fsys, order, parents, path, wellformed) ==
    LET f == _find_file(fsys, order, parents, path)
        cls == RepositoryClass(f)
    IN
    IF cls \in {"RepositoryJSON", "RepositoryIni"} /\ ~wellformed
    THEN [filename |-> f, raised |-> TRUE, config |-> NoConfig]
    ELSE [filename |-> f, raised |-> FALSE,
          config |-> Config(f, Repository(cls, FileData(Basename(f))))]

\* `if not self.config`
NeedsLoadAlways(cfg) == TRUE
NeedsLoad(cfg) == ~cfg.set

----------------------------------------------------------------------------
(* The inputs.                                                             *)

CsvAlphabet == {"a", " ", ",", "\"", "#", "\\"}

\* a, b, "c,d", followed by one space
CsvExample ==
    <<"a", ",", " ", "b", ",", " ", "\"", "c", ",", "d", "\"", ",", " ">>

CsvInputs == StringsUpTo(CsvAlphabet, MaxLen) \cup {CsvExample}

EnvAlphabet == {"A", "=", "#", "\"", " "}

\* FOO = "bar baz"  # not a comment marker mid-line
EnvExample ==
    <<"F", "O", "O", " ", "=", " ", "\"", "b", "a", "r", " ", "b", "a", "z",
      "\"", " ", " ", "#", " ", "n", "o", "t", " ", "a", " ", "c", "o", "m",
      "m", "e", "n", "t", " ", "m", "a", "r", "k", "e", "r", " ", "m", "i",
      "d", "-", "l", "i", "n", "e", "\n">>

EnvLines == StringsUpTo(EnvAlphabet, MaxLineLen) \cup {EnvExample}

\* a second line, to exercise a later key overwriting an earlier one
EnvSecondLines == {<<"A", "=", "b", "\n">>, <<"F", "O", "O", "=", "'", "q", "'">>}

EnvFiles ==
    {<<>>} \cup {<<l>> : l \in EnvLines}
           \cup {<<l, m>> : l \in EnvLines, m \in EnvSecondLines}

----------------------------------------------------------------------------
(* What the variables of a component hold while another one is checked.    *)

CfgIdle ==
    /\ environ = EmptyMap
    /\ fs = [d \in Dirs |-> {}]
    /\ iter_order = SupportedNames
    /\ search_path = NoPath
    /\ search_parents = TRUE
    /\ config = NoConfig
    /\ filename = NotFound
    /\ walks = 0
    /\ calls = 0
    /\ ret = NoRet

CsvIdle == value = <<>> /\ tokens = NoTokens

EnvIdle == source = <<>> /\ data = NoData

\* all mappings from a subset of Ks to Vs
Maps(Ks, Vs) == UNION {[S -> Vs] : S \in SUBSET Ks}

----------------------------------------------------------------------------
(* AutoConfig as a state machine: an instance over a filesystem, calls to  *)
(* it, and changes of the filesystem between the calls.                    *)

AutoDefaults == {undefined, Str(<<"d">>)}

\* the number of candidate files in the tree
RECURSIVE FileCount(_, _)
FileCount(fsys, d) ==
    IF d < 0 THEN 0 ELSE Cardinality(fsys[d]) + FileCount(fsys, d - 1)

Init ==
    /\ environ = EmptyMap
    /\ fs \in {f \in [Dirs -> SUBSET DOMAIN SUPPORTED] :
                  FileCount(f, MaxDepth) <= MaxFiles}
    /\ iter_order \in IterOrders
    /\ search_path \in Dirs \cup {NoPath}
    /\ search_parents \in BOOLEAN
    /\ config = NoConfig
    /\ filename = NotFound
    /\ walks = 0
    /\ calls = 0
    /\ ret = NoRet
    /\ CsvIdle
    /\ EnvIdle

\* self.search_path or self._caller_path(): the directory of the calling
\* module, whichever it is, when no search path was given
StartPaths == IF search_path = NoPath THEN Dirs ELSE {search_path}

\* AutoConfig.__call__(option, default) for the option K: `wellformed` is
\* whether the file found parses
AutoConfig__call__ ==
    /\ calls < MaxCalls
    /\ \E default \in AutoDefaults :
        IF NeedsLoad(config)
        THEN \E path \in StartPaths, wellformed \in BOOLEAN :
             LET l == _load(fs, iter_order, search_parents, path, wellformed)
             IN
             /\ walks' = walks + 1
             /\ filename' = l.filename
             /\ config' = l.config
             /\ ret' = Called(K_upper, default, "Undefined", path,
                        IF l.raised THEN Raise("ParseError", "no")
                        ELSE Config_get(l.config.repository, environ, K_upper,
                                        default, "Undefined"))
        ELSE /\ UNCHANGED <<walks, filename, config>>
             /\ ret' = Called(K_upper, default, "Undefined", NoPath,
                        Config_get(config.repository, environ, K_upper,
                                   default, "Undefined"))
    /\ calls' = calls + 1
    /\ UNCHANGED <<environ, fs, iter_order, search_path, search_parents>>
    /\ UNCHANGED <<csvVars, envVars>>

\* the file the repository was read from is removed
FileRemoved ==
    /\ config.set
    /\ config.source # NotFound
    /\ Basename(config.source) \in fs[config.source.dir]
    /\ fs' = [fs EXCEPT ![config.source.dir] = @ \ {Basename(config.source)}]
    /\ UNCHANGED <<environ, iter_order, search_path, search_parents, config,
                   filename, walks, calls, ret>>
    /\ UNCHANGED <<csvVars, envVars>>

Next == AutoConfig__call__ \/ FileRemoved

Spec == Init /\ [][Next]_vars

----------------------------------------------------------------------------
(* Config as a state machine: a Config over a repository of any variant,   *)
(* an environment, and calls to get.                                       *)

EnvValues == {<<>>, <<"O", "n">>, <<"m", "a", "y", "b", "e">>}
Environs == Maps(Keys, EnvValues)

FileValues == {Str(S_off), Str(<<"Y", "e", "s">>)}
JsonValues == {Str(S_off), PyTrue, None}

\* the section's options are lower-cased when the ini file is read
Repositories ==
    {Repository("RepositoryEmpty", EmptyMap)}
        \cup {Repository("RepositoryIni", m) : m \in Maps({K_lower}, FileValues)}
        \cup {Repository("RepositoryEnv", m) : m \in Maps(Keys, FileValues)}
        \cup {Repository("RepositoryJSON", m) : m \in Maps(Keys, JsonValues)}

Defaults ==
    {undefined, None, PyFalse, PyTrue}
        \cup {Str(s) : s \in {<<>>, S_1, S_0, S_yes, S_no, S_on, S_off, S_true,
                              S_false, <<"F", "a", "l", "s", "e">>,
                              <<"T", "R", "U", "E">>, <<"m", "a", "y", "b", "e">>,
                              <<"2">>}}

ConfigInit ==
    /\ environ \in Environs
    /\ config \in {Config(NotFound, r) : r \in Repositories}
    /\ fs = [d \in Dirs |-> {}]
    /\ iter_order = SupportedNames
    /\ search_path = NoPath
    /\ search_parents = TRUE
    /\ filename = NotFound
    /\ walks = 0
    /\ calls = 0
    /\ ret = NoRet
    /\ CsvIdle
    /\ EnvIdle

\* Config.get(option, default, cast), and Config.__call__, its shortcut
ConfigCall ==
    /\ \E option \in Keys, default \in Defaults, cast \in Casts :
        ret' = Called(option, default, cast, NoPath,
                      Config_get(config.repository, environ, option, default,
                                 cast))
    /\ UNCHANGED <<environ, fs, iter_order, search_path, search_parents,
                   config, filename, walks, calls>>
    /\ UNCHANGED <<csvVars, envVars>>

ConfigNext == ConfigCall

SpecConfig == ConfigInit /\ [][ConfigNext]_vars

----------------------------------------------------------------------------
(* The Csv caster as a state machine: an input, then the call.             *)

CsvInit ==
    /\ value \in CsvInputs
    /\ tokens = NoTokens
    /\ CfgIdle
    /\ EnvIdle

CsvCall ==
    /\ ~tokens.done
    /\ tokens' = Csv__call__(value)
    /\ UNCHANGED <<value, envVars, cfgVars>>

CsvNext == CsvCall

SpecCsv == CsvInit /\ [][CsvNext]_vars

----------------------------------------------------------------------------
(* The env-file repository as a state machine: a file, then __init__.      *)

EnvInit ==
    /\ source \in EnvFiles
    /\ data = NoData
    /\ CfgIdle
    /\ CsvIdle

EnvConstruct ==
    /\ ~data.built
    /\ data' = RepositoryEnv__init__(source)
    /\ UNCHANGED <<source, csvVars, cfgVars>>

EnvNext == EnvConstruct

SpecEnv == EnvInit /\ [][EnvNext]_vars

----------------------------------------------------------------------------
(* The properties.  They are stated over the variables and the inputs, not *)
(* over the operators that model the code.                                 *)

\* whether the data parsed from the repository's file defines key k, and
\* the value it gives it (an ini section's options are lower-cased)
KeyInFile(repo, k) ==
    IF repo.cls = "RepositoryIni" THEN Lower(k) \in DOMAIN repo.data
    ELSE k \in DOMAIN repo.data

FileValue(repo, k) ==
    IF repo.cls = "RepositoryIni" THEN repo.data[Lower(k)] ELSE repo.data[k]

\* the same return value or the same exception
SameOutcome(a, b) == a.kind = b.kind /\ a.value = b.value /\ a.exc = b.exc

TrueTokens == {S_1, S_yes, S_true, S_on}
FalseTokens == {S_0, S_no, S_false, S_off, <<>>}

\* the boolean caster of the specification, on the text s
BooleanCaster(s) ==
    IF Lower(s) \in TrueTokens THEN Return(PyTrue, "no")
    ELSE IF Lower(s) \in FalseTokens THEN Return(PyFalse, "no")
    ELSE Raise("ValueError", "no")

\* Python's builtin bool(v)
PythonBool(v) ==
    IF v.t = "bool" THEN v
    ELSE IF v.t = "str" THEN PyBool(v.s # <<>>)
    ELSE PyFalse

\* cast(v) for the callable the caller passed, taken literally
PythonCall(cast, v) ==
    IF cast = "bool" THEN Return(PythonBool(v), "no")
    ELSE Return(Str(PyStr(v)), "no")

\* C1: a key present in the environment, even with the empty string as its
\* value, resolves with no cast to exactly the environment's string,
\* whatever the repository and the default are.
C1_EnvironmentWins ==
    (ret.called /\ ret.option \in DOMAIN environ /\ ret.cast = "Undefined")
        => /\ ret.out.kind = "return"
           /\ ret.out.value = Str(environ[ret.option])
           /\ ret.out.getitem = "no"

C1_Witness ==
    /\ ret.called
    /\ ret.option \in DOMAIN environ
    /\ environ[ret.option] = <<>>
    /\ KeyInFile(config.repository, ret.option)
    /\ ret.default = Str(S_1)
    /\ ret.cast = "Undefined"
    /\ ret.out.value = Str(<<>>)

\* the last call was for a key absent from the environment and the repository
AbsentKey ==
    /\ ret.called
    /\ ret.option \notin DOMAIN environ
    /\ ~KeyInFile(config.repository, ret.option)

\* C2 as stated: for a key absent from the environment and the repository,
\* get fails with UndefinedValueError without a default, and with a default d
\* returns d when no cast is given and cast(d) when a cast is given.
C2_Original ==
    AbsentKey =>
        IF ret.default = undefined
        THEN ret.out.kind = "raise" /\ ret.out.exc = "UndefinedValueError"
        ELSE IF ret.cast = "Undefined"
        THEN SameOutcome(ret.out, Return(ret.default, "no"))
        ELSE SameOutcome(ret.out, PythonCall(ret.cast, ret.default))

\* C2 as amended: for a key absent from the environment and the repository,
\* get fails with UndefinedValueError without a default; with a default d it
\* returns d when no cast is given, cast(d) when a cast other than bool is
\* given, and for cast=bool the boolean caster's outcome on str(d), not
\* bool(d).
C2_DefaultThenCast ==
    AbsentKey =>
        IF ret.default = undefined
        THEN ret.out.kind = "raise" /\ ret.out.exc = "UndefinedValueError"
        ELSE IF ret.cast = "Undefined"
        THEN SameOutcome(ret.out, Return(ret.default, "no"))
        ELSE IF ret.cast = "bool"
        THEN SameOutcome(ret.out, BooleanCaster(PyStr(ret.default)))
        ELSE SameOutcome(ret.out, PythonCall(ret.cast, ret.default))

C2_Witness ==
    /\ AbsentKey
    /\ ret.default = None
    /\ ret.cast = "Undefined"
    /\ ret.out.kind = "return"
    /\ ret.out.value = None

\* the value the last call resolved, before the cast
Resolved ==
    IF ret.option \in DOMAIN environ THEN Str(environ[ret.option])
    ELSE IF KeyInFile(config.repository, ret.option)
    THEN FileValue(config.repository, ret.option)
    ELSE ret.default

\* C3: with cast=bool the resolved value, compared case-insensitively, gives
\* true for "1", "yes", "true", "on", false for "0", "no", "false", "off" and
\* the empty string, and a 'not a boolean' ValueError for anything else; the
\* builtin bool is never applied, so "False" gives false.
C3_BooleanCast ==
    (ret.called /\ ret.cast = "bool" /\ Resolved # undefined)
        => SameOutcome(ret.out, BooleanCaster(PyStr(Resolved)))

C3_Witness ==
    /\ ret.called
    /\ ret.cast = "bool"
    /\ Resolved = Str(<<"F", "a", "l", "s", "e">>)
    /\ ret.out.kind = "return"
    /\ ret.out.value = PyFalse

\* C4 as stated: whatever the first call's outcome, the discovery is
\* performed once, on the first call, and never again.
C4_Original == calls >= 1 => walks = 1

\* C4 as amended: every call made while self.config is unset (the first
\* call, and each later one as long as the repository's constructor has
\* raised) performs the discovery; once a call has built the repository,
\* every later call reuses it and walks and reads nothing more.
C4_MemoizedOnceBuilt ==
    /\ [](/\ (~config.set => walks = calls)
          /\ (calls >= 1 => walks >= 1)
          /\ walks <= calls)
    /\ [][config.set =>
            config' = config /\ walks' = walks /\ filename' = filename]_vars

C4_Witness ==
    /\ config.set
    /\ calls >= 2
    /\ walks = 1
    /\ config.source # NotFound
    /\ Basename(config.source) \notin fs[config.source.dir]
    /\ ret.path = NoPath
    /\ ret.out.kind = "return"

\* C5: among the candidate files of one directory the discovery selects by
\* the declared order secrets.json, settings.ini, .env, and the repository
\* is the variant the table gives for the selected name.
C5_DeclaredOrder ==
    [][(walks' = walks + 1 /\ filename' # NotFound) =>
        /\ filename'.name = FirstHit(SupportedNames, fs[filename'.dir])
        /\ config'.set => config'.repository.cls = SUPPORTED[filename'.name]]_vars

\* the directories a walk from D examines, by the specification
Examined(D) ==
    IF search_parents THEN {d \in Dirs : d <= D /\ (d = D \/ d # Root)}
    ELSE {D}

\* C6: a walk from D finds a candidate file of the nearest directory, among
\* D and (with parent search) its ancestors other than the root, that holds
\* any candidate file, and nothing when none does; with nothing found the
\* Empty repository is used.
C6_NearestDirectory ==
    [][walks' = walks + 1 =>
        LET hits == {d \in Examined(ret'.path) : fs[d] # {}} IN
        IF hits = {}
        THEN /\ filename' = NotFound
             /\ config'.set
             /\ config'.repository.cls = "RepositoryEmpty"
        ELSE /\ filename'.dir = CHOOSE d \in hits : \A e \in hits : e <= d
             /\ filename'.name \in fs[filename'.dir]]_vars

C6_Witness ==
    /\ calls = 1
    /\ walks = 1
    /\ search_parents
    /\ ret.path = filename.dir
    /\ filename.name = ".env"
    /\ filename.dir >= 2
    /\ "secrets.json" \in fs[filename.dir - 1]

\* the input has no quote, escape or comment character
Plain(s) == \A i \in 1..Len(s) : s[i] \notin Quotes \cup {Escape} \cup Commenters

StrippedFields(f) == [k \in 1..Len(f) |-> Strip(f[k], Whitespace)]

NonEmpty(f) == f # <<>>

\* C7 as stated: on an input without quote, escape or comment characters
\* the result is, in order, every delimiter-separated field stripped of
\* whitespace, an empty field giving an empty-string token; the empty input
\* gives the empty list.
C7_Original ==
    (tokens.done /\ Plain(value)) =>
        /\ ~tokens.raised
        /\ tokens.list = IF value = <<>> THEN <<>>
                         ELSE StrippedFields(SplitFields(value, ","))

\* C7 as amended: an empty field (a leading or trailing delimiter, two
\* delimiters in a row) gives no token; on an input without quote, escape
\* or comment characters the result is, in order, the non-empty
\* delimiter-separated fields, each stripped of whitespace (so a field of
\* whitespace only gives an empty-string token); the empty input gives the
\* empty list.
C7_EmptyFieldsDropped ==
    (tokens.done /\ Plain(value)) =>
        /\ ~tokens.raised
        /\ tokens.list =
              StrippedFields(SelectSeq(SplitFields(value, ","), NonEmpty))

C7_Witness ==
    /\ tokens.done
    /\ value = <<",", " ", ",", "a">>
    /\ tokens.list = << <<>>, <<"a">> >>

\* C8: the input a, b, "c,d", followed by one space gives exactly the four
\* tokens "a", "b", "c,d", "" in that order: the quoted delimiter stays in
\* its token and the quotes are removed.
C8_QuotedExample ==
    (tokens.done /\ value = CsvExample) =>
        /\ ~tokens.raised
        /\ tokens.list = << <<"a">>, <<"b">>, <<"c", ",", "d">>, <<>> >>

C8_Witness ==
    /\ tokens.done
    /\ value = CsvExample
    /\ Len(tokens.list) = 4
    /\ tokens.list[3] = <<"c", ",", "d">>

FOO == <<"F", "O", "O">>

\* C9 as stated: the line FOO = "bar baz"  # not a comment marker mid-line
\* is not skipped and gives FOO -> bar baz.
C9_Original ==
    (data.built /\ source = <<EnvExample>>) =>
        data.map = (FOO :> <<"b", "a", "r", " ", "b", "a", "z">>)

\* C9 as amended: the line is not skipped and its key is FOO, but only the
\* leading quote and the surrounding whitespace are stripped: the value is
\* everything after it, bar baz"  # not a comment marker mid-line
C9_ValueKeepsRest ==
    (data.built /\ source = <<EnvExample>>) =>
        data.map =
            (FOO :> <<"b", "a", "r", " ", "b", "a", "z", "\"", " ", " ", "#",
                      " ", "n", "o", "t", " ", "a", " ", "c", "o", "m", "m",
                      "e", "n", "t", " ", "m", "a", "r", "k", "e", "r", " ",
                      "m", "i", "d", "-", "l", "i", "n", "e">>)

C9_Witness ==
    /\ data.built
    /\ source = <<EnvExample>>
    /\ DOMAIN data.map = {FOO}

\* C10: get reads the repository's value for a key only when the key is
\* absent from the environment and the data parsed from the file defines
\* it, so the repository never fails for a missing key.
C10_GetItemOnlyWhenDefined ==
    ret.called =>
        /\ ret.out.getitem # "missing"
        /\ ret.out.getitem = "ok" =>
              /\ ret.option \notin DOMAIN environ
              /\ KeyInFile(config.repository, ret.option)

C10_Witness ==
    /\ ret.called
    /\ config.repository.cls = "RepositoryIni"
    /\ ret.option \in DOMAIN environ
    /\ ~KeyInFile(config.repository, ret.option)
    /\ ret.out.getitem = "no"
    /\ ret.out.kind = "return"

====
